---- MODULE Spec2Model ----
(***************************************************************************)
(* The Unlisp runtime (tagged objects, symbols, lists, function            *)
(* descriptors, the setjmp/longjmp exception channel, the predefined       *)
(* functions) and the closure materialisation emitted by the code          *)
(* generator, as one state machine.  Compiled code is any sequence of      *)
(* runtime-helper calls made between the setjmp of                         *)
(* run_with_global_ex_handler and its return; every helper call is one     *)
(* action.  Pointers are heap indices, the null pointer is 0.              *)
(***************************************************************************)
EXTENDS Integers, Sequences, FiniteSets, TLC

VARIABLES
    pc,           \* where the process is: "init", "idle", "running", "longjmp", "aborted"
    symtab,       \* the interner: name -> symbol pointer
    symbols,      \* heap of Symbol records {name, function}
    functions,    \* heap of Function descriptors, each a sequence of field cells
    lists,        \* heap of List cells {node, len}
    nodes,        \* heap of Node cells {val, next}
    regs,         \* the Object temporaries the running compiled code holds
    ERR_MSG_PTR,  \* the message slot: the String box the global points at
    result,       \* what run_with_global_ex_handler returned last
    last,         \* the last helper call of the compiled code and its outcome
    driver,       \* the command-line driver: its input, its output, its exit
    ctx,          \* the CodegenContext: environment frames, block stack depth
    reader        \* the Reader: the tokens its lexer has left, its last outcome

vars == <<pc, symtab, symbols, functions, lists, nodes, regs, ERR_MSG_PTR,
          result, last, driver, ctx, reader>>

-----------------------------------------------------------------------------
(* Bounds of the model *)

\* List cells the process allocates.
MaxLists == 2
\* Closures the compiled code materialises.
MaxClosures == 1
\* Argument counts the compiled code passes.
MaxArgCount == 2
\* Raises after which no further form is run.
MaxRaises == 2
\* The largest magnitude of an integer the compiled code computes.
MaxInt == 14

\* The Object temporaries of the compiled code: the helpers take at most
\* two Object operands.
Temps == {"a", "b"}

(* Integer literals the compiled code packs, and the C-string literals it  *)
(* holds: two distinct literals spell the same name.                       *)
IntLits == {7}
CStrLits == <<"foo", "foo", "+", "first", "-">>

NULL == 0

-----------------------------------------------------------------------------
(* Object ABI: defs.rs *)

ObjType_Int64 == 1
ObjType_List == 2
ObjType_Symbol == 3
ObjType_Function == 4

ObjTypes == {ObjType_Int64, ObjType_List, ObjType_Symbol, ObjType_Function}

FunctionType_Function == 0
FunctionType_Closure == 1

\* impl fmt::Display for ObjType
ObjType_fmt(ty) ==
    CASE ty = ObjType_Int64 -> "int"
      [] ty = ObjType_List -> "list"
      [] ty = ObjType_Function -> "function"
      [] ty = ObjType_Symbol -> "symbol"

\* A faulty from_int: the tag of another kind.
from_int_tagged_list(i) == [ty |-> ObjType_List, obj |-> i]
\* The payload union is one 64-bit word: an integer or a pointer.
from_int(i) == [ty |-> ObjType_Int64, obj |-> i]
from_list(list) == [ty |-> ObjType_List, obj |-> list]
from_symbol(sym) == [ty |-> ObjType_Symbol, obj |-> sym]
from_function(function) == [ty |-> ObjType_Function, obj |-> function]

NoObj == [ty |-> 0, obj |-> 0]

(* Outcomes of a helper call: a scalar or pointer return, an Object        *)
(* return, a raise through the exception channel (the message formatted),  *)
(* a Rust panic, or undefined behaviour.                                   *)
Ret(v) == [tag |-> "ret", val |-> v]
RetObj(o) == [tag |-> "obj", val |-> o]
Raised(msg) == [tag |-> "raise", msg |-> msg]
Panicked == [tag |-> "panic"]
Undefined == [tag |-> "ub"]

\* A faulty raise_cast_error: the two kinds the other way round.
raise_cast_error_swapped(from, to) == Raised("cannot cast " \o to \o " to " \o from)
\* exceptions.rs: raise_cast_error formats the message; set_msg_and_jump
\* (below) delivers it.
raise_cast_error(from, to) == Raised("cannot cast " \o from \o " to " \o to)

type_err(self, target_ty) ==
    raise_cast_error(ObjType_fmt(self.ty), ObjType_fmt(target_ty))

unpack_int(self) ==
    IF self.ty = ObjType_Int64 THEN Ret(self.obj) ELSE type_err(self, ObjType_Int64)

unpack_list(self) ==
    IF self.ty = ObjType_List THEN Ret(self.obj) ELSE type_err(self, ObjType_List)

unpack_symbol(self) ==
    IF self.ty = ObjType_Symbol THEN Ret(self.obj) ELSE type_err(self, ObjType_Symbol)

unpack_function(self) ==
    IF self.ty = ObjType_Function THEN Ret(self.obj) ELSE type_err(self, ObjType_Function)

-----------------------------------------------------------------------------
(* Function descriptors: defs.rs, struct Function.  A descriptor is the    *)
(* sequence of its fields in layout order (field i of the source is        *)
(* element i+1); a closure's descriptor goes on with its free-variable     *)
(* slots.  A field is a typed cell; malloc'ed memory nobody stored to is   *)
(* Uninit.                                                                 *)

I(n) == [k |-> "int", v |-> n]
B(b) == [k |-> "bool", v |-> b]
CStr(s) == [k |-> "cstr", v |-> s]
NullCStr == [k |-> "cstr_null", v |-> ""]
FPtr(f) == [k |-> "fptr", v |-> f]
Arr(a) == [k |-> "arr", v |-> a]
Slot(o) == [k |-> "obj", v |-> o]
Uninit == [k |-> "uninit", v |-> 0]

F_ty == 0
F_name == 1
F_arglist == 2
F_arg_count == 3
F_is_macro == 4
F_invoke_f_ptr == 5
F_apply_to_f_ptr == 6
F_has_restarg == 7

Field(d, i) == d[i + 1]

Function(ty, name, arglist, arg_count, is_macro, invoke_f_ptr, apply_to_f_ptr, has_restarg) ==
    << I(ty), CStr(name), Arr(arglist), I(arg_count), B(is_macro),
       FPtr(invoke_f_ptr), FPtr(apply_to_f_ptr), B(has_restarg) >>

(* What a load of a field yields.  A bool loaded from a cell that holds    *)
(* something else (an Object stored over it, memory nobody stored to) is   *)
(* whatever the bytes happen to say: orc, chosen by the caller.            *)
LoadBool(c, orc) == IF c.k = "bool" THEN c.v ELSE orc

\* A faulty unlisp_rt_check_arity: the rest parameter is not looked at.
check_arity_no_rest(has_restarg, params_count, arg_count) ==
    ~ ((arg_count < params_count) \/ (params_count # arg_count))
\* defs.rs: unlisp_rt_check_arity, on the two fields it loads.
unlisp_rt_check_arity(has_restarg, params_count, arg_count) ==
    LET is_incorrect == (arg_count < params_count)
                        \/ (~ has_restarg /\ params_count # arg_count)
    IN  ~ is_incorrect

-----------------------------------------------------------------------------
(* Exception messages: exceptions.rs *)

\* A faulty raise_arity_error: the expected count in the message.
raise_arity_error_expected(name, expected, actual) ==
    LET name_str == IF name.k # "cstr_null" THEN name.v ELSE "lambda"
    IN  Raised("wrong number of arguments (" \o ToString(expected)
               \o ") passed to " \o name_str)
raise_arity_error(name, expected, actual) ==
    LET name_str == IF name.k # "cstr_null" THEN name.v ELSE "lambda"
    IN  Raised("wrong number of arguments (" \o ToString(actual)
               \o ") passed to " \o name_str)

raise_undef_fn_error(name) == Raised("undefined function " \o name.v)

-----------------------------------------------------------------------------
(* The heap the helpers work on, passed and returned as one record. *)

Heap == [symtab |-> symtab, symbols |-> symbols, functions |-> functions,
         lists |-> lists, nodes |-> nodes]

Res(h, out) == [h |-> h, out |-> out]

\* defs.rs: Symbol::new
Symbol_new(name) == [name |-> name, function |-> NULL]

CStr_from_ptr(p) == CStrLits[p]

(* symbols.rs: the interner. *)
get_or_intern_symbol(h, name) ==
    IF name \in DOMAIN h.symtab
    THEN [h |-> h, ptr |-> h.symtab[name]]
    ELSE LET p == Len(h.symbols) + 1
         IN  [h |-> [h EXCEPT !.symbols = Append(@, Symbol_new(name)),
                              !.symtab = (name :> p) @@ @],
              ptr |-> p]

get_or_intern_symbol_by_ptr(h, name) == get_or_intern_symbol(h, CStr_from_ptr(name))

\* A faulty unlisp_rt_intern_sym: a new record at every call.
intern_sym_always_new(h, name) ==
    [h |-> [h EXCEPT !.symbols = Append(@, Symbol_new(CStr_from_ptr(name)))],
     ptr |-> Len(h.symbols) + 1]
\* defs.rs: unlisp_rt_intern_sym
unlisp_rt_intern_sym(h, name) == get_or_intern_symbol_by_ptr(h, name)

\* defs.rs: Object::nil and unlisp_rt_nil_object box a fresh empty List.
EmptyList == [node |-> NULL, len |-> 0]

Object_nil(h) ==
    Res([h EXCEPT !.lists = Append(@, EmptyList)],
        RetObj(from_list(Len(h.lists) + 1)))

unlisp_rt_nil_object(h) ==
    Res([h EXCEPT !.lists = Append(@, EmptyList)],
        RetObj(from_list(Len(h.lists) + 1)))

\* A faulty unlisp_rt_object_is_nil: the kind is not tested first.
is_nil_no_tag_check(h, o) ==
    LET list_ptr == unpack_list(o)
    IN  IF list_ptr.tag = "raise" THEN Res(h, list_ptr)
        ELSE Res(h, Ret(h.lists[list_ptr.val].len = 0))
\* defs.rs: unlisp_rt_object_is_nil
unlisp_rt_object_is_nil(h, o) ==
    IF o.ty = ObjType_List
    THEN LET list_ptr == unpack_list(o)
         IN  IF list_ptr.tag = "raise" THEN Res(h, list_ptr)
             ELSE Res(h, Ret(h.lists[list_ptr.val].len = 0))
    ELSE Res(h, Ret(FALSE))

\* defs.rs: unlisp_rt_int_from_obj
unlisp_rt_int_from_obj(h, o) == Res(h, unpack_int(o))

-----------------------------------------------------------------------------
(* List cells.  A Node's val points at a boxed copy of the Object, which   *)
(* nothing writes to afterwards: the node holds the copy.                  *)

\* The by-value List walkers of the apply path (List::first, List::rest).
List_first(h, l) == h.nodes[l.node].val
List_rest(h, l) == h.lists[h.nodes[l.node].next]

\* obj_array_to_list(n, arr, Some(tail)): arr[1..n] consed onto tail.
RECURSIVE obj_array_to_list(_, _, _, _)
obj_array_to_list(h, n, arr, tail) ==
    IF n = 0 THEN [h |-> h, ptr |-> tail]
    ELSE LET node == [val |-> arr[n], next |-> tail]
             cell == [node |-> Len(h.nodes) + 1, len |-> h.lists[tail].len + 1]
             h2 == [h EXCEPT !.nodes = Append(@, node), !.lists = Append(@, cell)]
         IN  obj_array_to_list(h2, n - 1, arr, Len(h.lists) + 1)

\* Structural equality of tagged objects (PartialEq for Object).
RECURSIVE Object_eq(_, _, _)
Object_eq(h, x, y) ==
    /\ x.ty = y.ty
    /\ IF x.ty # ObjType_List THEN x.obj = y.obj
       ELSE LET RECURSIVE ListEq(_, _)
                ListEq(a, b) ==
                    /\ h.lists[a].len = h.lists[b].len
                    /\ \/ h.lists[a].len = 0
                       \/ /\ Object_eq(h, h.nodes[h.lists[a].node].val,
                                          h.nodes[h.lists[b].node].val)
                          /\ ListEq(h.nodes[h.lists[a].node].next,
                                    h.nodes[h.lists[b].node].next)
            IN  ListEq(x.obj, y.obj)

-----------------------------------------------------------------------------
(* Predefined functions, invoke path: predefined.rs *)

RECURSIVE SumInts(_, _, _)
SumInts(args, i, acc) ==
    IF i > Len(args) THEN RetObj(from_int(acc))
    ELSE LET x == unpack_int(args[i])
         IN  IF x.tag = "raise" THEN x ELSE SumInts(args, i + 1, acc + x.val)

RECURSIVE SubInts(_, _, _)
SubInts(args, i, acc) ==
    IF i > Len(args) THEN RetObj(from_int(acc))
    ELSE LET x == unpack_int(args[i])
         IN  IF x.tag = "raise" THEN x ELSE SubInts(args, i + 1, acc - x.val)

native_add_invoke(h, args) == Res(h, SumInts(args, 1, 0))

\* A faulty native_sub_invoke: the trailing arguments are added.
native_sub_invoke_adds(h, x, args) ==
    LET result0 == unpack_int(x)
    IN  IF result0.tag = "raise" THEN Res(h, result0)
        ELSE Res(h, SumInts(args, 1, result0.val))
native_sub_invoke(h, x, args) ==
    LET result0 == unpack_int(x)
    IN  IF result0.tag = "raise" THEN Res(h, result0)
        ELSE Res(h, SubInts(args, 1, result0.val))

native_equal_invoke(h, x, y) ==
    IF Object_eq(h, x, y) THEN Res(h, RetObj(x)) ELSE Object_nil(h)

\* A faulty native_set_fn_invoke: the binding goes to another symbol.
set_fn_first_symbol(h, sym, func) ==
    LET s == unpack_symbol(sym)
        f == unpack_function(func)
    IN  IF s.tag = "raise" THEN Res(h, s)
        ELSE IF f.tag = "raise" THEN Res(h, f)
        ELSE Object_nil([h EXCEPT !.symbols[1].function = f.val])
native_set_fn_invoke(h, sym, func) ==
    LET s == unpack_symbol(sym)
        f == unpack_function(func)
    IN  IF s.tag = "raise" THEN Res(h, s)
        ELSE IF f.tag = "raise" THEN Res(h, f)
        ELSE Object_nil([h EXCEPT !.symbols[s.val].function = f.val])

\* A faulty native_cons_invoke: the new cell keeps the length of the old.
cons_keeps_len(h, x, list) ==
    LET l == unpack_list(list)
    IN  IF l.tag = "raise" THEN Res(h, l)
        ELSE LET node == [val |-> x, next |-> l.val]
                 new_list == [node |-> Len(h.nodes) + 1, len |-> h.lists[l.val].len]
             IN  Res([h EXCEPT !.nodes = Append(@, node),
                               !.lists = Append(@, new_list)],
                     RetObj(from_list(Len(h.lists) + 1)))
native_cons_invoke(h, x, list) ==
    LET l == unpack_list(list)
    IN  IF l.tag = "raise" THEN Res(h, l)
        ELSE LET len == h.lists[l.val].len
                 node == [val |-> x, next |-> l.val]
                 new_list == [node |-> Len(h.nodes) + 1, len |-> len + 1]
             IN  Res([h EXCEPT !.nodes = Append(@, node),
                               !.lists = Append(@, new_list)],
                     RetObj(from_list(Len(h.lists) + 1)))

native_rest_invoke(h, list) ==
    LET l == unpack_list(list)
    IN  IF l.tag = "raise" THEN Res(h, l)
        ELSE IF h.lists[l.val].len = 0 THEN Object_nil(h)
        ELSE Res(h, RetObj(from_list(h.nodes[h.lists[l.val].node].next)))

native_first_invoke(h, list) ==
    LET l == unpack_list(list)
    IN  IF l.tag = "raise" THEN Res(h, l)
        ELSE IF h.lists[l.val].len = 0 THEN Res(h, Panicked)
        ELSE Res(h, RetObj(h.nodes[h.lists[l.val].node].val))

native_symbol_fn_invoke(h, sym) ==
    LET s == unpack_symbol(sym)
    IN  IF s.tag = "raise" THEN Res(h, s)
        ELSE Res(h, RetObj(from_function(h.symbols[s.val].function)))

\* (*f).is_macro = true through a null f is a write through the null pointer.
native_set_macro_invoke(h, f) ==
    LET fp == unpack_function(f)
    IN  IF fp.tag = "raise" THEN Res(h, fp)
        ELSE IF fp.val = NULL THEN Res(h, Undefined)
        ELSE Object_nil([h EXCEPT !.functions[fp.val][F_is_macro + 1] = B(TRUE)])

-----------------------------------------------------------------------------
(* Predefined functions, apply path: predefined.rs.  args is the List      *)
(* struct passed by value.                                                 *)

ApplyHelpers ==
    {"native_add_apply", "native_sub_apply", "native_equal_apply",
     "native_set_fn_apply", "native_symbol_fn_apply", "native_cons_apply",
     "native_rest_apply", "native_first_apply", "native_apply_apply",
     "native_set_macro_apply"}

RECURSIVE ListToSeq(_, _)
ListToSeq(h, l) ==
    IF l.len = 0 THEN << >> ELSE << List_first(h, l) >> \o ListToSeq(h, List_rest(h, l))

native_add_apply(h, f, args) == Res(h, SumInts(ListToSeq(h, args), 1, 0))

\* args.first() and args.rest() on a list shorter than the helper expects
\* read through the null node pointer.
native_sub_apply(h, f, args) ==
    IF args.len < 1 THEN Res(h, Undefined)
    ELSE LET result0 == unpack_int(List_first(h, args))
         IN  IF result0.tag = "raise" THEN Res(h, result0)
             ELSE Res(h, SubInts(ListToSeq(h, List_rest(h, args)), 1, result0.val))

native_equal_apply(h, f, args) ==
    IF args.len < 2 THEN Res(h, Undefined)
    ELSE native_equal_invoke(h, List_first(h, args), List_first(h, List_rest(h, args)))

native_set_fn_apply(h, f, args) ==
    IF args.len < 2 THEN Res(h, Undefined)
    ELSE native_set_fn_invoke(h, List_first(h, args), List_first(h, List_rest(h, args)))

native_cons_apply(h, f, args) ==
    IF args.len < 2 THEN Res(h, Undefined)
    ELSE native_cons_invoke(h, List_first(h, args), List_first(h, List_rest(h, args)))

native_rest_apply(h, f, args) ==
    IF args.len < 1 THEN Res(h, Undefined)
    ELSE native_rest_invoke(h, List_first(h, args))

native_first_apply(h, f, args) ==
    IF args.len < 1 THEN Res(h, Undefined)
    ELSE native_first_invoke(h, List_first(h, args))

native_symbol_fn_apply(h, f, args) ==
    IF args.len < 1 THEN Res(h, Undefined)
    ELSE native_symbol_fn_invoke(h, List_first(h, args))

native_set_macro_apply(h, f, args) ==
    IF args.len < 1 THEN Res(h, Undefined)
    ELSE native_set_macro_invoke(h, List_first(h, args))

(* apply_to_list: the arity check, the raise, then the call through the    *)
(* descriptor's apply_to_f_ptr (a transmute of whatever the field holds).  *)
RECURSIVE apply_to_list(_, _, _, _)

native_apply_apply(h, f, args, orc) ==
    IF args.len < 1 THEN Res(h, Undefined)
    ELSE LET target == unpack_function(List_first(h, args))
         IN  IF target.tag = "raise" THEN Res(h, target)
             ELSE apply_to_list(h, target.val, List_rest(h, args), orc)

call_apply_fn(h, apply_fn, f, args, orc) ==
    CASE apply_fn = "native_add_apply" -> native_add_apply(h, f, args)
      [] apply_fn = "native_sub_apply" -> native_sub_apply(h, f, args)
      [] apply_fn = "native_equal_apply" -> native_equal_apply(h, f, args)
      [] apply_fn = "native_set_fn_apply" -> native_set_fn_apply(h, f, args)
      [] apply_fn = "native_symbol_fn_apply" -> native_symbol_fn_apply(h, f, args)
      [] apply_fn = "native_cons_apply" -> native_cons_apply(h, f, args)
      [] apply_fn = "native_rest_apply" -> native_rest_apply(h, f, args)
      [] apply_fn = "native_first_apply" -> native_first_apply(h, f, args)
      [] apply_fn = "native_apply_apply" -> native_apply_apply(h, f, args, orc)
      [] apply_fn = "native_set_macro_apply" -> native_set_macro_apply(h, f, args)

\* A faulty apply_to_list: the arity check is left out.
apply_to_list_unchecked(h, f, args, orc) ==
    IF f = NULL THEN Res(h, Undefined)
    ELSE LET apply_fn == Field(h.functions[f], F_apply_to_f_ptr)
         IN  IF apply_fn.k # "fptr" THEN Res(h, Undefined)
             ELSE call_apply_fn(h, apply_fn.v, f, args, orc)
apply_to_list(h, f, args, orc) ==
    IF f = NULL THEN Res(h, Undefined)
    ELSE LET d == h.functions[f]
             has_restarg == LoadBool(Field(d, F_has_restarg), orc)
             params_count == Field(d, F_arg_count).v
             apply_fn == Field(d, F_apply_to_f_ptr)
         IN  IF ~ unlisp_rt_check_arity(has_restarg, params_count, args.len)
             THEN Res(h, raise_arity_error(Field(d, F_name), params_count, args.len))
             ELSE IF apply_fn.k # "fptr" THEN Res(h, Undefined)
             ELSE call_apply_fn(h, apply_fn.v, f, args, orc)

\* predefined.rs:190: the offset in the array of the n trailing arguments
\* that native_apply_invoke reads the list from.
last_arg_index(n) == n - 1

(* native_apply_invoke(_, n, f, args...): the last of the n trailing       *)
(* arguments is the list the others are consed onto.  With n = 0 the read  *)
(* at offset n - 1 is outside the array.                                   *)
native_apply_invoke(h, n, f, args, orc) ==
    LET fp == unpack_function(f)
    IN  IF fp.tag = "raise" THEN Res(h, fp)
        ELSE IF n = 0 THEN Res(h, Undefined)
        ELSE LET last_arg == unpack_list(args[n])
             IN  IF last_arg.tag = "raise" THEN Res(h, last_arg)
                 ELSE LET built == obj_array_to_list(h, n - 1, args, last_arg.val)
                      IN  apply_to_list(built.h, fp.val, built.h.lists[built.ptr], orc)

-----------------------------------------------------------------------------
(* init(): predefined.rs.  The built-ins in registration order. *)

Builtin(invoke_fn, apply_to_fn, name, arglist, vararg) ==
    [invoke_fn |-> invoke_fn, apply_to_fn |-> apply_to_fn, name |-> name,
     arglist |-> arglist, vararg |-> vararg]

Predefined ==
    << Builtin("native_add_invoke", "native_add_apply", "+", << >>, TRUE),
       Builtin("native_sub_invoke", "native_sub_apply", "-", <<"x">>, TRUE),
       Builtin("native_equal_invoke", "native_equal_apply", "equal", <<"x", "y">>, FALSE),
       Builtin("native_set_fn_invoke", "native_set_fn_apply", "set-fn", <<"sym", "func">>, FALSE),
       Builtin("native_symbol_fn_invoke", "native_symbol_fn_apply", "symbol-function", <<"sym">>, FALSE),
       Builtin("native_cons_invoke", "native_cons_apply", "cons", <<"x", "list">>, FALSE),
       Builtin("native_rest_invoke", "native_rest_apply", "rest", <<"list">>, FALSE),
       Builtin("native_first_invoke", "native_first_apply", "first", <<"list">>, FALSE),
       Builtin("native_apply_invoke", "native_apply_apply", "apply", <<"f">>, TRUE),
       Builtin("native_set_macro_invoke", "native_set_macro_apply", "set-macro", <<"f">>, FALSE) >>

init_symbol_fn(h, invoke_fn, apply_to_fn, name, arglist, vararg) ==
    LET interned == get_or_intern_symbol(h, name)
        func == Function(FunctionType_Function, name, arglist, Len(arglist), FALSE,
                         invoke_fn, apply_to_fn, vararg)
        fptr == Len(h.functions) + 1
    IN  [interned.h EXCEPT !.functions = Append(@, func),
                           !.symbols[interned.ptr].function = fptr]

-----------------------------------------------------------------------------
(* Closure materialisation: closure.rs, compile_closure.  The emitted code *)
(* mallocs the closure struct (8 prefix fields and one Object slot per     *)
(* free variable) and stores into it by field index.                       *)

Closure(name, arglist, restarg, free_vars) ==
    [name |-> name, arglist |-> arglist, restarg |-> restarg, free_vars |-> free_vars]

\* The field index the stores of the free variables start at (closure.rs:285),
\* and the one the trampoline's loads start at (closure.rs:153).
FreeVarStoreBase == 7
FreeVarLoadBase == 8
PrefixFields == 8

Store(d, i, cell) == [d EXCEPT ![i + 1] = cell]

RECURSIVE StoreFreeVars(_, _, _)
StoreFreeVars(d, vals, i) ==
    IF i >= Len(vals) THEN d
    ELSE StoreFreeVars(Store(d, FreeVarStoreBase + i, Slot(vals[i + 1])), vals, i + 1)

compile_closure(h, closure, vals) ==
    LET malloced == [i \in 1..(PrefixFields + closure.free_vars) |-> Uninit]
        name == IF closure.name = "" THEN "lambda" ELSE closure.name
        s0 == Store(malloced, F_ty, I(FunctionType_Closure))
        s1 == Store(s0, F_name, CStr(name))
        s3 == Store(s1, F_arg_count, I(closure.arglist))
        s4 == Store(s3, F_is_macro, B(FALSE))
        invoke_fn == IF closure.name = "" THEN "invoke_closure"
                     ELSE "invoke_" \o closure.name
        s5 == Store(s4, F_invoke_f_ptr, FPtr(invoke_fn))
        s7 == Store(s5, F_has_restarg, B(closure.restarg))
        d == StoreFreeVars(s7, vals, 0)
    IN  Res([h EXCEPT !.functions = Append(@, d)],
            RetObj(from_function(Len(h.functions) + 1)))

\* The descriptor compile_closure builds for a closure capturing vals.
closure_struct(h, closure, vals) ==
    LET made == compile_closure(h, closure, vals)
    IN  made.h.functions[made.out.val.obj]

(* closure.rs: codegen_invoke_fn.  The trampoline of a closure with        *)
(* free_vars captured variables loads variable i from field 8 + i of the   *)
(* struct it is given and calls the raw function with the loads followed   *)
(* by its own arguments.                                                   *)
raw_fn_args(d, free_vars, args) ==
    [i \in 1..free_vars |-> Field(d, FreeVarLoadBase + (i - 1))]
        \o [i \in 1..Len(args) |-> Slot(args[i])]

(* closure.rs: codegen_raw_fn.  The parameters of the raw function are the *)
(* free variables, the positional parameters and the rest parameter, in    *)
(* this order; the body of the lambdas here returns the first of them.  A  *)
(* slot nothing stored into holds whatever malloc left there.              *)
raw_fn(h, params) ==
    IF params[1].k = "obj" THEN Res(h, RetObj(params[1].v)) ELSE Res(h, Undefined)

invoke_closure(h, d, args) ==
    raw_fn(h, raw_fn_args(d, Len(d) - PrefixFields, args))

-----------------------------------------------------------------------------
(* The state machine *)

NoCall == [op |-> "none", args |-> << >>, out |-> [tag |-> "none"]]
NoResult == [tag |-> "none", val |-> ""]
NoTemps == [r \in Temps |-> NoObj]

(* The code generator on a lambda: closure.rs.  The context holds a stack  *)
(* of environment frames, each the names bound in it, and a stack of       *)
(* function blocks, of which the depth is kept; out is how the last call   *)
(* of compile_closure ended.                                               *)

\* Environment frames the context holds.
MaxEnvDepth == 4

NewContext == [envs |-> << {} >>, blocks |-> 0, out |-> "none"]

push_env(c) == [c EXCEPT !.envs = Append(@, {})]
pop_env(c) == [c EXCEPT !.envs = SubSeq(@, 1, Len(@) - 1)]
enter_fn_block(c) == [c EXCEPT !.blocks = @ + 1]
exit_block(c) == [c EXCEPT !.blocks = @ - 1]
save_env_mapping(c, names) == [c EXCEPT !.envs[Len(c.envs)] = @ \cup names]
lookup_name(c, var) == \E i \in 1..Len(c.envs) : var \in c.envs[i]

\* The names of a lambda: free variables, positional parameters, rest.
FreeVarNames(closure) == {"v" \o ToString(i) : i \in 1..closure.free_vars}
ParamNames(closure) ==
    FreeVarNames(closure)
        \cup {"x" \o ToString(i) : i \in 1..closure.arglist}
        \cup (IF closure.restarg THEN {"r"} ELSE {})

(* What lowering and verification end in: the body lowers and both         *)
(* functions verify, compile_hirs returns an error, or the verification    *)
(* of the raw function or of the trampoline fails.                         *)
LoweringOutcomes == {"ok", "err", "raw_unverified", "invoke_unverified"}

\* closure.rs: codegen_raw_fn.  The `?` on compile_hirs returns before
\* exit_block and pop_env; a failed verification panics.
codegen_raw_fn(c, closure, lowering) ==
    LET framed == save_env_mapping(enter_fn_block(push_env(c)), ParamNames(closure))
    IN  IF lowering = "err" THEN [ctx |-> framed, out |-> "err"]
        ELSE IF lowering = "raw_unverified" THEN [ctx |-> framed, out |-> "panic"]
        ELSE [ctx |-> pop_env(exit_block(framed)), out |-> "ok"]

\* closure.rs: codegen_invoke_fn: enter_fn_block, the trampoline's body,
\* verification, exit_block.
codegen_invoke_fn(c, lowering) ==
    IF lowering = "invoke_unverified"
    THEN [ctx |-> enter_fn_block(c), out |-> "panic"]
    ELSE [ctx |-> exit_block(enter_fn_block(c)), out |-> "ok"]

\* closure.rs: compile_closure on the context: the raw function, the
\* trampoline, then the look-up of every free variable.
codegen_closure(c, closure, lowering) ==
    LET raw_made == codegen_raw_fn(c, closure, lowering)
    IN  IF raw_made.out # "ok" THEN raw_made
        ELSE LET invoke_made == codegen_invoke_fn(raw_made.ctx, lowering)
             IN  IF invoke_made.out # "ok" THEN invoke_made
                 ELSE IF \E var \in FreeVarNames(closure) : ~ lookup_name(invoke_made.ctx, var)
                 THEN [ctx |-> invoke_made.ctx, out |-> "err"]
                 ELSE [ctx |-> invoke_made.ctx, out |-> "ok"]

(* The reader: reader.rs.  The lexer is the sequence of tokens it has    *)
(* yet to give; a token and a form are a kind k and a payload v, the       *)
(* payload of a literal being its text; a List form holds its items.       *)

\* Tokens in the input of the reader.
MaxToks == 4

Tok(k, v) == [k |-> k, v |-> v]
Form(k, v) == [k |-> k, v |-> v]
ListForm(items) == [k |-> "List", items |-> items]

Tokens ==
    {Tok("LeftPar", ""), Tok("RightPar", ""), Tok("Symbol", "nil"), Tok("Symbol", "t"),
     Tok("Symbol", "a"), Tok("IntegerLiteral", "7"), Tok("StringLiteral", "s")}

TokenStreams == UNION {[1..n -> Tokens] : n \in 0..MaxToks}

NoReader == [toks |-> << >>, out |-> [tag |-> "unread"]]

\* reader.rs: next_tok_or_eof: the next token, or the UnexpectedEof error.
next_tok_or_eof(toks) ==
    IF toks = << >>
    THEN [out |-> [tag |-> "err", msg |-> "unexpected end of file"], rest |-> toks]
    ELSE [out |-> [tag |-> "tok", tok |-> Head(toks)], rest |-> Tail(toks)]

\* A faulty tok_to_trivial_form: nil is read as a symbol.
nil_as_symbol(tok) ==
    CASE tok.k = "Symbol" /\ tok.v = "t" -> Form("T", "")
      [] tok.k = "Symbol" /\ tok.v # "t" -> Form("Symbol", tok.v)
      [] tok.k = "IntegerLiteral" -> Form("Integer", tok.v)
      [] tok.k = "StringLiteral" -> Form("String", tok.v)
      [] OTHER -> Form("None", "")

\* reader.rs: tok_to_trivial_form; Form("None", "") is Option::None.
tok_to_trivial_form(tok) ==
    CASE tok.k = "Symbol" /\ tok.v = "nil" -> ListForm(<< >>)
      [] tok.k = "Symbol" /\ tok.v = "t" -> Form("T", "")
      [] tok.k = "Symbol" /\ tok.v \notin {"nil", "t"} -> Form("Symbol", tok.v)
      [] tok.k = "IntegerLiteral" -> Form("Integer", tok.v)
      [] tok.k = "StringLiteral" -> Form("String", tok.v)
      [] OTHER -> Form("None", "")

RECURSIVE read_list_loop(_, _)

\* reader.rs: read_list_form: the first token, then the loop.
read_list_form(toks) == read_list_loop(toks, << >>)

\* reader.rs: read_list_form, the while loop with vec the forms pushed so
\* far: the next token ends the list, is a trivial form, or opens a list.
read_list_loop(toks, vec) ==
    LET next == next_tok_or_eof(toks)
    IN  IF next.out.tag = "err" THEN next
        ELSE IF next.out.tok.k = "RightPar"
        THEN [out |-> [tag |-> "form", form |-> ListForm(vec)], rest |-> next.rest]
        ELSE IF tok_to_trivial_form(next.out.tok).k # "None"
        THEN read_list_loop(next.rest, Append(vec, tok_to_trivial_form(next.out.tok)))
        ELSE IF next.out.tok.k = "LeftPar"
        THEN LET sub == read_list_form(next.rest)
             IN  IF sub.out.tag # "form" THEN sub
                 ELSE read_list_loop(sub.rest, Append(vec, sub.out.form))
        ELSE [out |-> [tag |-> "panic"], rest |-> next.rest]

\* reader.rs: read_form: Ok(None) at the end of the input, a trivial
\* form, a list, the error on a closing parenthesis, the panic otherwise.
read_form(toks) ==
    IF toks = << >> THEN [out |-> [tag |-> "none"], rest |-> toks]
    ELSE LET tok == Head(toks)
         IN  IF tok_to_trivial_form(tok).k # "None"
             THEN [out |-> [tag |-> "form", form |-> tok_to_trivial_form(tok)],
                   rest |-> Tail(toks)]
             ELSE IF tok.k = "LeftPar" THEN read_list_form(Tail(toks))
             ELSE IF tok.k = "RightPar"
             THEN [out |-> [tag |-> "err", msg |-> "unbalanced parens"], rest |-> Tail(toks)]
             ELSE [out |-> [tag |-> "panic"], rest |-> Tail(toks)]

(* main.rs: the driver.  cmd is the subcommand that runs, input the        *)
(* outcome of each form of its input in order, pos the form read next;     *)
(* printed, reported, prompts and reinits count the values written to      *)
(* stdout, the messages written to stderr, the prompts shown and the       *)
(* calls of ctx.reinitialize(); dump is the --dump-compiled flag; exit is  *)
(* the exit status, NotExited while the process runs.                      *)
NotExited == 0 - 1
NoDriver ==
    [cmd |-> "none", input |-> << >>, pos |-> 1, dump |-> FALSE, printed |-> 0,
     reported |-> 0, prompts |-> 0, reinits |-> 0, exit |-> NotExited]

Init ==
    /\ pc = "init"
    /\ symtab = [n \in {} |-> NULL]
    /\ symbols = << >>
    /\ functions = << >>
    /\ lists = << >>
    /\ nodes = << >>
    /\ regs = NoTemps
    /\ ERR_MSG_PTR = [addr |-> NULL, str |-> ""]
    /\ result = NoResult
    /\ last = NoCall
    /\ driver = NoDriver
    /\ ctx = NewContext
    /\ reader = NoReader

SetHeap(h) ==
    /\ symtab' = h.symtab
    /\ symbols' = h.symbols
    /\ functions' = h.functions
    /\ lists' = h.lists
    /\ nodes' = h.nodes

\* predefined.rs: init() registers the built-ins one after the other.
InitSymbolFn ==
    /\ pc = "init"
    /\ LET b == Predefined[Len(functions) + 1]
       IN  SetHeap(init_symbol_fn(Heap, b.invoke_fn, b.apply_to_fn, b.name,
                                  b.arglist, b.vararg))
    /\ pc' = IF Len(functions) + 1 = Len(Predefined) THEN "idle" ELSE "init"
    /\ UNCHANGED <<regs, ERR_MSG_PTR, result, last, driver, ctx, reader>>

(* exceptions.rs: run_with_global_ex_handler.  setjmp returns 0 and the    *)
(* compiled function is called (RunSetjmp); it returns an Object (RunOk),  *)
(* or a helper longjmps and setjmp returns a second time, non-zero, and    *)
(* the handler clones the String the global points at (RunErr).            *)
RunSetjmp ==
    /\ pc = "idle"
    /\ ERR_MSG_PTR.addr < MaxRaises
    /\ pc' = "running"
    /\ regs' = NoTemps
    /\ result' = NoResult
    /\ last' = NoCall
    /\ UNCHANGED <<symtab, symbols, functions, lists, nodes, ERR_MSG_PTR, driver, ctx, reader>>

Live == {regs[r] : r \in Temps} \ {NoObj}

RunOk ==
    /\ pc = "running"
    /\ \E o \in Live :
        /\ result' = [tag |-> "Ok", val |-> o]
        /\ last' = [op |-> "return", args |-> <<o>>, out |-> RetObj(o)]
    /\ pc' = "idle"
    /\ regs' = NoTemps
    /\ UNCHANGED <<symtab, symbols, functions, lists, nodes, ERR_MSG_PTR, driver, ctx, reader>>

RunErr ==
    /\ pc = "longjmp"
    /\ result' = [tag |-> "Err", val |-> ERR_MSG_PTR.str]
    /\ pc' = "idle"
    /\ regs' = NoTemps
    /\ UNCHANGED <<symtab, symbols, functions, lists, nodes, ERR_MSG_PTR, last,
                   driver, ctx, reader>>

\* A faulty set_msg_and_jump: the global is left as it was.
jump_without_msg(msg) ==
    /\ ERR_MSG_PTR' = ERR_MSG_PTR
    /\ pc' = "longjmp"
\* exceptions.rs: set_msg_and_jump boxes the message, points the global at
\* the new box and longjmps.
set_msg_and_jump(msg) ==
    /\ ERR_MSG_PTR' = [addr |-> ERR_MSG_PTR.addr + 1, str |-> msg]
    /\ pc' = "longjmp"

(* What the build may do on undefined behaviour: the process dies, or the  *)
(* call comes back with some Object.                                       *)
UBOutcomes == {"abort", "garbage"}

(* One helper call of the compiled code: op(args) ended as res.out on the  *)
(* heap res.h; an Object it returned is kept in temporary r.               *)
Call(op, args, res, r) ==
    /\ pc = "running"
    /\ last' = [op |-> op, args |-> args, out |-> res.out]
    /\ SetHeap(res.h)
    /\ CASE res.out.tag = "obj" ->
              /\ regs' = [regs EXCEPT ![r] = res.out.val]
              /\ UNCHANGED <<pc, ERR_MSG_PTR>>
         [] res.out.tag = "ret" -> UNCHANGED <<regs, pc, ERR_MSG_PTR>>
         [] res.out.tag = "raise" ->
              /\ set_msg_and_jump(res.out.msg)
              /\ UNCHANGED regs
         [] res.out.tag = "panic" ->
              /\ pc' = "aborted"
              /\ UNCHANGED <<regs, ERR_MSG_PTR>>
         [] res.out.tag = "ub" ->
              \E u \in UBOutcomes :
                  /\ pc' = IF u = "abort" THEN "aborted" ELSE pc
                  /\ regs' = IF u = "abort" THEN regs ELSE [regs EXCEPT ![r] = from_int(0)]
                  /\ UNCHANGED ERR_MSG_PTR
    /\ UNCHANGED <<result, driver, ctx, reader>>

\* A helper call that returns no Object leaves the temporaries alone.
CallV(op, args, res) == Call(op, args, res, CHOOSE r \in Temps : TRUE)

\* The values a read of a boolean field can give: the value stored, or
\* either one when the field was never stored.
Loads(c) == IF c.k = "bool" THEN {c.v} ELSE BOOLEAN

\* The compiled code interns the C-string literals it holds.
InternSym(lits) ==
    \E name \in lits :
        LET got == unlisp_rt_intern_sym(Heap, name)
        IN  CallV("unlisp_rt_intern_sym", <<name>>, Res(got.h, Ret(got.ptr)))

ObjectFromInt ==
    \E i \in IntLits, r \in Temps :
        Call("unlisp_rt_object_from_int", <<i>>, Res(Heap, RetObj(from_int(i))), r)

IntFromObj ==
    \E o \in Live :
        CallV("unlisp_rt_int_from_obj", <<o>>, unlisp_rt_int_from_obj(Heap, o))

\* The Symbol pointer is the one unlisp_rt_intern_sym has just returned.
ObjectFromSymbol ==
    /\ last.op = "unlisp_rt_intern_sym"
    /\ \E r \in Temps :
        Call("unlisp_rt_object_from_symbol", <<last.out.val>>,
             Res(Heap, RetObj(from_symbol(last.out.val))), r)

ObjectIsNil ==
    \E o \in Live :
        CallV("unlisp_rt_object_is_nil", <<o>>, unlisp_rt_object_is_nil(Heap, o))

NilObject ==
    /\ Len(lists) < MaxLists
    /\ \E r \in Temps : Call("unlisp_rt_nil_object", << >>, unlisp_rt_nil_object(Heap), r)

LiveFunctions == {o.obj : o \in {x \in Live : x.ty = ObjType_Function /\ x.obj # NULL}}

CheckArity ==
    \E f \in LiveFunctions, arg_count \in 0..MaxArgCount :
        \E orc \in Loads(Field(functions[f], F_has_restarg)) :
            LET has_restarg == LoadBool(Field(functions[f], F_has_restarg), orc)
                params_count == Field(functions[f], F_arg_count).v
            IN  CallV("unlisp_rt_check_arity", <<f, arg_count, has_restarg, params_count>>,
                      Res(Heap, Ret(unlisp_rt_check_arity(has_restarg, params_count, arg_count))))

NamePtrs == {CStr("foo"), NullCStr}

\* The parameter counts of the functions whose calls the code compiles.
ParamCounts == {0, 1}

RaiseArityError ==
    \E name \in NamePtrs, expected \in ParamCounts, actual \in 0..MaxArgCount :
        CallV("raise_arity_error", <<name, expected, actual>>,
              Res(Heap, raise_arity_error(name, expected, actual)))

RaiseUndefFnError ==
    \E name \in NamePtrs \ {NullCStr} :
        CallV("raise_undef_fn_error", <<name>>, Res(Heap, raise_undef_fn_error(name)))

ArgSeqs(n) == UNION {[1..k -> Live] : k \in 0..n}

\* The integers of the model stay within MaxInt.
InRange(res) ==
    (res.out.tag = "obj" /\ res.out.val.ty = ObjType_Int64) =>
        res.out.val.obj \in (0 - MaxInt)..MaxInt

NativeAdd ==
    \E args \in ArgSeqs(MaxArgCount), r \in Temps :
        /\ InRange(native_add_invoke(Heap, args))
        /\ Call("native_add_invoke", args, native_add_invoke(Heap, args), r)

NativeSub ==
    \E x \in Live, args \in ArgSeqs(MaxArgCount - 1), r \in Temps :
        /\ InRange(native_sub_invoke(Heap, x, args))
        /\ Call("native_sub_invoke", <<x>> \o args, native_sub_invoke(Heap, x, args), r)

NativeEqual ==
    /\ Len(lists) < MaxLists
    /\ \E x \in Live, y \in Live, r \in Temps :
        Call("native_equal_invoke", <<x, y>>, native_equal_invoke(Heap, x, y), r)

NativeSetFn ==
    /\ Len(lists) < MaxLists
    /\ \E sym \in Live, func \in Live, r \in Temps :
        Call("native_set_fn_invoke", <<sym, func>>, native_set_fn_invoke(Heap, sym, func), r)

NativeSymbolFn ==
    \E sym \in Live, r \in Temps :
        Call("native_symbol_fn_invoke", <<sym>>, native_symbol_fn_invoke(Heap, sym), r)

NativeCons ==
    /\ Len(lists) < MaxLists
    /\ \E x \in Live, list \in Live, r \in Temps :
        Call("native_cons_invoke", <<x, list>>, native_cons_invoke(Heap, x, list), r)

\* The rest of an empty list allocates a List cell.
NativeRest ==
    \E list \in Live, r \in Temps :
        /\ Len(native_rest_invoke(Heap, list).h.lists) <= MaxLists
        /\ Call("native_rest_invoke", <<list>>, native_rest_invoke(Heap, list), r)

NativeFirst ==
    \E list \in Live, r \in Temps :
        Call("native_first_invoke", <<list>>, native_first_invoke(Heap, list), r)

\* The reads of has_restarg that a call through f makes.
FnLoads(f) ==
    IF f.ty = ObjType_Function /\ f.obj # NULL
    THEN Loads(Field(functions[f.obj], F_has_restarg))
    ELSE {FALSE}

NativeApply ==
    /\ Len(lists) < MaxLists
    /\ \E f \in Live, n \in 0..MaxArgCount, r \in Temps :
        \E args \in [1..n -> Live], orc \in FnLoads(f) :
            Call("native_apply_invoke", <<f>> \o args,
                 native_apply_invoke(Heap, n, f, args, orc), r)

NativeSetMacro ==
    /\ Len(lists) < MaxLists
    /\ \E f \in Live, r \in Temps :
        Call("native_set_macro_invoke", <<f>>, native_set_macro_invoke(Heap, f), r)

\* The lambdas of the compiled program: name ("" for none), number of
\* positional parameters, rest parameter, number of free variables.
Closures ==
    { Closure("", 1, FALSE, 0), Closure("f", 0, TRUE, 0), Closure("", 1, FALSE, 1) }

CompileClosure(shapes) ==
    /\ Len(functions) < Len(Predefined) + MaxClosures
    /\ \E closure \in shapes, r \in Temps :
        \E vals \in [1..closure.free_vars -> Live] :
            Call("compile_closure", <<closure>> \o vals,
                 compile_closure(Heap, closure, vals), r)

\* Lambdas that capture a variable, without and with a rest parameter.
CapturingClosures ==
    { Closure("", 1, FALSE, 0), Closure("", 1, FALSE, 1), Closure("g", 1, TRUE, 1) }

\* The compiled code calls a closure through the invoke pointer of its
\* descriptor, with as many arguments as it has positional parameters.
InvokeClosure ==
    \E f \in LiveFunctions, r \in Temps :
        /\ Field(functions[f], F_ty) = I(FunctionType_Closure)
        /\ \E args \in [1..Field(functions[f], F_arg_count).v -> Live] :
              Call("invoke_closure", <<f>> \o args,
                   invoke_closure(Heap, functions[f], args), r)

-----------------------------------------------------------------------------
(* The code generator as an action. *)

CodegenClosure ==
    /\ pc = "idle"
    /\ Len(ctx.envs) < MaxEnvDepth
    /\ \E closure \in CapturingClosures, lowering \in LoweringOutcomes :
          LET done == codegen_closure(ctx, closure, lowering)
          IN  /\ ctx' = [done.ctx EXCEPT !.out = done.out]
              /\ pc' = IF done.out = "panic" THEN "aborted" ELSE pc
    /\ UNCHANGED <<symtab, symbols, functions, lists, nodes, regs, ERR_MSG_PTR,
                   result, last, driver, reader>>

-----------------------------------------------------------------------------
(* The driver: main.rs.  What reading, compiling and running one form      *)
(* ends in is an input: a value, a syntax error of the reader, an error    *)
(* of the code generator, or a failure returned by the exception handler.  *)

FormOutcomes == {"value", "syntax", "codegen", "runtime"}

\* Forms in the input of a command.
MaxForms == 3

Inputs == UNION {[1..n -> FormOutcomes] : n \in 0..MaxForms}

\* main.rs: eval_and_expand_file, one turn of the loop on a form, with
\* panic_on_err false: an error is written to stderr and the loop goes on.
eval_and_expand_form(d, outcome) ==
    [d EXCEPT !.reported = IF outcome = "value" THEN @ ELSE @ + 1,
              !.reinits = @ + 1,
              !.pos = @ + 1]

\* main.rs: eval_and_expand_file at the end of the input: Ok(None), break,
\* and the function returns Ok(expanded).
eval_and_expand_file_is_ok(d) == TRUE

\* main.rs: exec_file and the eval branch of main: exit(1) when exec_file
\* returns false, otherwise main returns.
exec_file_exit(d) ==
    [d EXCEPT !.exit = IF ~ eval_and_expand_file_is_ok(d) THEN 1 ELSE 0]

\* The runtime is initialised before the file is read.
StartEval ==
    /\ pc = "idle"
    /\ driver.cmd = "none"
    /\ \E input \in Inputs : driver' = [NoDriver EXCEPT !.cmd = "eval", !.input = input]
    /\ UNCHANGED <<pc, symtab, symbols, functions, lists, nodes, regs, ERR_MSG_PTR,
                   result, last, ctx, reader>>

EvalForm ==
    /\ driver.cmd = "eval"
    /\ driver.exit = NotExited
    /\ driver.pos <= Len(driver.input)
    /\ driver' = eval_and_expand_form(driver, driver.input[driver.pos])
    /\ UNCHANGED <<pc, symtab, symbols, functions, lists, nodes, regs, ERR_MSG_PTR,
                   result, last, ctx, reader>>

EvalEnd ==
    /\ driver.cmd = "eval"
    /\ driver.exit = NotExited
    /\ driver.pos > Len(driver.input)
    /\ driver' = exec_file_exit(driver)
    /\ UNCHANGED <<pc, symtab, symbols, functions, lists, nodes, regs, ERR_MSG_PTR,
                   result, last, ctx, reader>>

-----------------------------------------------------------------------------
(* Specifications.  Compiled code is any sequence of the helper calls a    *)
(* specification lists.                                                    *)

\* Objects, lists and the exception channel.
Next ==
    \/ InitSymbolFn
    \/ RunSetjmp
    \/ RunOk
    \/ RunErr
    \/ InternSym({1, 2})
    \/ ObjectFromSymbol
    \/ ObjectFromInt
    \/ IntFromObj
    \/ NilObject
    \/ ObjectIsNil
    \/ NativeCons
    \/ NativeSymbolFn

Spec == Init /\ [][Next]_vars

\* Function descriptors, the arity check and the raising helpers.
NextArity ==
    \/ InitSymbolFn
    \/ RunSetjmp
    \/ RunOk
    \/ RunErr
    \/ InternSym({3})
    \/ ObjectFromSymbol
    \/ NativeSymbolFn
    \/ CompileClosure(Closures)
    \/ CheckArity
    \/ RaiseArityError
    \/ RaiseUndefFnError

SpecArity == Init /\ [][NextArity]_vars

\* Symbols and their function bindings.
NextSym ==
    \/ InitSymbolFn
    \/ RunSetjmp
    \/ RunOk
    \/ RunErr
    \/ InternSym({1, 2, 3})
    \/ ObjectFromSymbol
    \/ NativeSetFn
    \/ NativeSymbolFn
    \/ CompileClosure({Closure("", 1, FALSE, 0)})

SpecSym == Init /\ [][NextSym]_vars

\* Calls through apply: a built-in and a closure as the callee.
NextApply ==
    \/ InitSymbolFn
    \/ RunSetjmp
    \/ RunOk
    \/ RunErr
    \/ InternSym({3})
    \/ ObjectFromSymbol
    \/ NativeSymbolFn
    \/ CompileClosure({Closure("", 1, FALSE, 0)})
    \/ ObjectFromInt
    \/ NilObject
    \/ NativeApply

SpecApply == Init /\ [][NextApply]_vars

\* apply on a built-in of one positional parameter.
NextDispatch ==
    \/ InitSymbolFn
    \/ RunSetjmp
    \/ RunOk
    \/ RunErr
    \/ InternSym({4})
    \/ ObjectFromSymbol
    \/ NativeSymbolFn
    \/ ObjectFromInt
    \/ NilObject
    \/ NativeApply

SpecDispatch == Init /\ [][NextDispatch]_vars

\* main.rs: launch_repl and the head of repl: the first prompt.
StartRepl ==
    /\ pc = "idle"
    /\ driver.cmd = "none"
    /\ \E input \in Inputs, dump \in BOOLEAN :
          driver' = [NoDriver EXCEPT !.cmd = "repl", !.input = input,
                                     !.dump = dump, !.prompts = 1]
    /\ UNCHANGED <<pc, symtab, symbols, functions, lists, nodes, regs, ERR_MSG_PTR,
                   result, last, ctx, reader>>

\* A faulty repl: an error in a form leaves the loop.
repl_step_break_on_error(d, outcome) ==
    IF outcome = "value"
    THEN [d EXCEPT !.printed = @ + 1, !.reinits = @ + 1, !.prompts = @ + 1,
                   !.pos = @ + 1]
    ELSE [d EXCEPT !.reported = @ + 1, !.pos = @ + 1, !.exit = 0]

\* main.rs: repl, one turn of the loop on a form: the value goes to stdout,
\* an error to stderr, the compiled module too when it is dumped; then
\* ctx.reinitialize() and prompt().
repl_step(d, outcome) ==
    LET compiled == outcome \in {"value", "runtime"}
        dumped == IF d.dump /\ compiled THEN 1 ELSE 0
    IN  [d EXCEPT !.printed = IF outcome = "value" THEN @ + 1 ELSE @,
                  !.reported = (IF outcome = "value" THEN @ ELSE @ + 1) + dumped,
                  !.reinits = @ + 1,
                  !.prompts = @ + 1,
                  !.pos = @ + 1]

ReplForm ==
    /\ driver.cmd = "repl"
    /\ driver.exit = NotExited
    /\ driver.pos <= Len(driver.input)
    /\ driver' = repl_step(driver, driver.input[driver.pos])
    /\ UNCHANGED <<pc, symtab, symbols, functions, lists, nodes, regs, ERR_MSG_PTR,
                   result, last, ctx, reader>>

\* main.rs: repl on Ok(None): break; repl, launch_repl and main return.
ReplEnd ==
    /\ driver.cmd = "repl"
    /\ driver.exit = NotExited
    /\ driver.pos > Len(driver.input)
    /\ driver' = [driver EXCEPT !.exit = 0]
    /\ UNCHANGED <<pc, symtab, symbols, functions, lists, nodes, regs, ERR_MSG_PTR,
                   result, last, ctx, reader>>

\* Lists: cons, rest and first.
NextLists ==
    \/ InitSymbolFn
    \/ RunSetjmp
    \/ RunOk
    \/ RunErr
    \/ ObjectFromInt
    \/ NilObject
    \/ NativeCons
    \/ NativeRest
    \/ NativeFirst

SpecLists == Init /\ [][NextLists]_vars

\* Integers: + and -.
NextArith ==
    \/ InitSymbolFn
    \/ RunSetjmp
    \/ RunOk
    \/ RunErr
    \/ ObjectFromInt
    \/ NilObject
    \/ NativeAdd
    \/ NativeSub

SpecArith == Init /\ [][NextArith]_vars

\* Reader::create on an input.
StartRead ==
    /\ reader.out.tag = "unread"
    /\ \E toks \in TokenStreams : reader' = [toks |-> toks, out |-> [tag |-> "created"]]
    /\ UNCHANGED <<pc, symtab, symbols, functions, lists, nodes, regs, ERR_MSG_PTR,
                   result, last, driver, ctx>>

\* One call of read_form; the caller stops at Ok(None).
ReadForm ==
    /\ reader.out.tag \in {"created", "form", "err"}
    /\ LET read == read_form(reader.toks)
       IN  reader' = [toks |-> read.rest, out |-> read.out]
    /\ UNCHANGED <<pc, symtab, symbols, functions, lists, nodes, regs, ERR_MSG_PTR,
                   result, last, driver, ctx>>

\* The reader.
NextReader ==
    \/ StartRead
    \/ ReadForm

SpecReader == Init /\ [][NextReader]_vars

\* The code generator.
NextCodegen ==
    \/ InitSymbolFn
    \/ CodegenClosure

SpecCodegen == Init /\ [][NextCodegen]_vars

\* The driver.
NextDriver ==
    \/ InitSymbolFn
    \/ StartEval
    \/ EvalForm
    \/ EvalEnd
    \/ StartRepl
    \/ ReplForm
    \/ ReplEnd

SpecDriver == Init /\ [][NextDriver]_vars

\* Closures: materialisation, the arity check and the trampoline.
NextClosure ==
    \/ InitSymbolFn
    \/ RunSetjmp
    \/ RunOk
    \/ RunErr
    \/ ObjectFromInt
    \/ IntFromObj
    \/ CompileClosure(CapturingClosures)
    \/ CheckArity
    \/ InvokeClosure

SpecClosure == Init /\ [][NextClosure]_vars

-----------------------------------------------------------------------------
(* Properties *)

\* The Objects the program can get hold of: the temporaries, the values
\* of the list nodes, and the Object a run returned.
Objects ==
    Live \cup {nodes[i].val : i \in 1..Len(nodes)}
         \cup (IF result.tag = "Ok" THEN {result.val} ELSE {})

\* The unpacker of a kind, and the kinds' display names.
Unpack(k, o) ==
    CASE k = ObjType_Int64 -> unpack_int(o)
      [] k = ObjType_List -> unpack_list(o)
      [] k = ObjType_Symbol -> unpack_symbol(o)
      [] k = ObjType_Function -> unpack_function(o)

KindName == <<"int", "list", "symbol", "function">>

\* Argument counts and stored-or-not has_restarg reads of every descriptor.
ArityCases == 0..(MaxArgCount + 1)

(* C1: unlisp_rt_check_arity(f, n) is true exactly when                    *)
(* n >= f.arg_count and (f.has_restarg or n = f.arg_count): for every      *)
(* descriptor on the heap and every argument count, and for the calls the  *)
(* compiled code has made.                                                 *)
C1_CheckArity ==
    /\ \A f \in 1..Len(functions), n \in ArityCases :
         \A has_restarg \in Loads(Field(functions[f], F_has_restarg)) :
            LET arg_count == Field(functions[f], F_arg_count).v
            IN  unlisp_rt_check_arity(has_restarg, arg_count, n)
                    = (n >= arg_count /\ (has_restarg \/ n = arg_count))
    /\ last.op = "unlisp_rt_check_arity" =>
         LET n == last.args[2]
             has_restarg == last.args[3]
             arg_count == last.args[4]
         IN  /\ last.out.tag = "ret"
             /\ last.out.val = (n >= arg_count /\ (has_restarg \/ n = arg_count))

\* A function with a rest parameter was checked against more arguments
\* than it has positional parameters, and was accepted.
C1_Witness ==
    /\ last.op = "unlisp_rt_check_arity"
    /\ last.args[3] = TRUE
    /\ last.args[2] > last.args[4]
    /\ last.out = Ret(TRUE)

(* C2: an unpacker applied to an Object of another kind raises the cast    *)
(* error "cannot cast FROM to TO", FROM the display name of the kind the   *)
(* Object has and TO the one requested; the raise of                       *)
(* unlisp_rt_int_from_obj reaches the handler with that message.           *)
C2_CastError ==
    /\ \A o \in Objects, k \in ObjTypes :
         o.ty # k =>
            Unpack(k, o) = Raised("cannot cast " \o KindName[o.ty]
                                  \o " to " \o KindName[k])
    /\ (last.op = "unlisp_rt_int_from_obj" /\ last.args[1].ty # ObjType_Int64) =>
         LET msg == "cannot cast " \o KindName[last.args[1].ty] \o " to int"
         IN  /\ last.out = Raised(msg)
             /\ pc \in {"longjmp", "idle"}
             /\ pc = "longjmp" => ERR_MSG_PTR.str = msg
             /\ pc = "idle" => result = [tag |-> "Err", val |-> msg]

\* unlisp_rt_int_from_obj was given a list and the handler got the message.
C2_Witness ==
    /\ pc = "idle"
    /\ last.op = "unlisp_rt_int_from_obj"
    /\ last.args[1].ty = ObjType_List
    /\ result = [tag |-> "Err", val |-> "cannot cast list to int"]

\* Payloads: integers, and the pointers of the heap.
IntPayloads == IntLits \cup {-2147483647, -1, 0, 1, 2147483647}

(* C3: packing a value with the constructor of its kind and unpacking the  *)
(* Object with the unpacker of the same kind gives the value back and      *)
(* raises nothing.                                                         *)
C3_PackUnpack ==
    /\ \A i \in IntPayloads : unpack_int(from_int(i)) = Ret(i)
    /\ \A l \in 1..Len(lists) : unpack_list(from_list(l)) = Ret(l)
    /\ \A sym \in 1..Len(symbols) : unpack_symbol(from_symbol(sym)) = Ret(sym)
    /\ \A f \in 0..Len(functions) : unpack_function(from_function(f)) = Ret(f)
    /\ \A i \in IntPayloads :
         unlisp_rt_int_from_obj(Heap, from_int(i)).out = Ret(i)
    /\ (last.op = "unlisp_rt_int_from_obj" /\ last.args[1].ty = ObjType_Int64) =>
         /\ last.out = Ret(last.args[1].obj)
         /\ pc = "running"

\* The compiled code packed 7 with unlisp_rt_object_from_int and got 7
\* back from unlisp_rt_int_from_obj.
C3_Witness ==
    /\ last.op = "unlisp_rt_int_from_obj"
    /\ last.args[1] = from_int(7)
    /\ last.out = Ret(7)
    /\ pc = "running"

(* C4: unlisp_rt_object_is_nil(x) is true exactly when x is a List of      *)
(* length 0, and is false without a raise for every other kind; the        *)
(* Objects of Object::nil and unlisp_rt_nil_object satisfy it.             *)
C4_IsNil ==
    /\ \A o \in Objects :
         unlisp_rt_object_is_nil(Heap, o)
            = Res(Heap, Ret(IF o.ty = ObjType_List THEN lists[o.obj].len = 0
                            ELSE FALSE))
    /\ LET made == Object_nil(Heap)
       IN  /\ made.out.tag = "obj"
           /\ unlisp_rt_object_is_nil(made.h, made.out.val).out = Ret(TRUE)
    /\ LET made == unlisp_rt_nil_object(Heap)
       IN  /\ made.out.tag = "obj"
           /\ unlisp_rt_object_is_nil(made.h, made.out.val).out = Ret(TRUE)
    /\ last.op = "unlisp_rt_nil_object" =>
         unlisp_rt_object_is_nil(Heap, last.out.val).out = Ret(TRUE)
    /\ last.op = "unlisp_rt_object_is_nil" =>
         /\ last.out.tag = "ret"
         /\ pc = "running"
         /\ last.out.val = (/\ last.args[1].ty = ObjType_List
                            /\ lists[last.args[1].obj].len = 0)

\* The test was made on an Object that is not a list, and on one that is
\* a list of one element: false both times, and the code went on.
C4_Witness ==
    /\ last.op = "unlisp_rt_object_is_nil"
    /\ last.args[1].ty = ObjType_Symbol
    /\ last.out = Ret(FALSE)
    /\ pc = "running"
    /\ \E o \in Live : /\ o.ty = ObjType_List
                       /\ lists[o.obj].len = 1
                       /\ unlisp_rt_object_is_nil(Heap, o).out = Ret(FALSE)

(* C5: a call of run_with_global_ex_handler ends with the Object the       *)
(* compiled function returned, or with a failure carrying exactly the      *)
(* message of the raise that aborted this call, whatever earlier calls     *)
(* raised.                                                                 *)
C5_Handler ==
    (pc = "idle" /\ result.tag # "none") =>
        \/ /\ result.tag = "Ok"
           /\ last.op = "return"
           /\ result.val = last.args[1]
        \/ /\ result.tag = "Err"
           /\ last.out.tag = "raise"
           /\ result.val = last.out.msg

\* A second call failed, with another message than the first: the first
\* raise was a cast of a symbol, this one a cast of a list.
C5_Witness ==
    /\ pc = "idle"
    /\ ERR_MSG_PTR.addr = 2
    /\ last.op = "native_cons_invoke"
    /\ last.args[2].ty = ObjType_Int64
    /\ result = [tag |-> "Err", val |-> "cannot cast int to list"]

(* C6: raise_arity_error delivers "wrong number of arguments (N) passed    *)
(* to NAME" to the handler, N the actual argument count and NAME the name  *)
(* given or "lambda" for a null name, and does not return to its caller.   *)
C6_ArityError ==
    /\ \A name \in NamePtrs, expected \in ArityCases, actual \in ArityCases :
         raise_arity_error(name, expected, actual)
            = Raised("wrong number of arguments (" \o ToString(actual)
                     \o ") passed to "
                     \o (IF name = NullCStr THEN "lambda" ELSE name.v))
    /\ last.op = "raise_arity_error" =>
         LET msg == "wrong number of arguments (" \o ToString(last.args[3])
                    \o ") passed to "
                    \o (IF last.args[1] = NullCStr THEN "lambda"
                        ELSE last.args[1].v)
         IN  /\ last.out = Raised(msg)
             /\ pc \in {"longjmp", "idle"}
             /\ pc = "longjmp" => ERR_MSG_PTR.str = msg
             /\ pc = "idle" => result = [tag |-> "Err", val |-> msg]

\* A null name, one parameter expected and two arguments passed: the
\* handler got "wrong number of arguments (2) passed to lambda".
C6_Witness ==
    /\ pc = "idle"
    /\ last.op = "raise_arity_error"
    /\ last.args = <<NullCStr, 1, 2>>
    /\ result = [tag |-> "Err", val |-> "wrong number of arguments (2) passed to lambda"]

\* The Symbol and the Function Objects the program can get hold of.
SymbolObjects == {o \in Objects : o.ty = ObjType_Symbol}
FunctionObjects == {o \in Objects : o.ty = ObjType_Function}

(* C7: there is one symbol record per name.  Interning a name, by string   *)
(* as init_symbol_fn does or by a C-string pointer as                      *)
(* unlisp_rt_intern_sym does, gives the record of that name, the same one  *)
(* for equal names, and leaves the function binding of every record as it  *)
(* was.                                                                    *)
C7_Interning ==
    /\ \A i \in 1..Len(symbols), j \in 1..Len(symbols) :
         symbols[i].name = symbols[j].name => i = j
    /\ \A n \in DOMAIN symtab :
         /\ symtab[n] \in 1..Len(symbols)
         /\ symbols[symtab[n]].name = n
         /\ get_or_intern_symbol(Heap, n) = [h |-> Heap, ptr |-> symtab[n]]
    /\ \A p \in 1..Len(CStrLits), q \in 1..Len(CStrLits) :
         LET first == unlisp_rt_intern_sym(Heap, p)
             second == unlisp_rt_intern_sym(first.h, q)
             by_string == get_or_intern_symbol(first.h, CStr_from_ptr(p))
         IN  /\ first.h.symbols[first.ptr].name = CStr_from_ptr(p)
             /\ by_string.ptr = first.ptr
             /\ CStr_from_ptr(p) = CStr_from_ptr(q) =>
                    second = [h |-> first.h, ptr |-> first.ptr]
             /\ CStr_from_ptr(p) # CStr_from_ptr(q) => second.ptr # first.ptr
             /\ \A sym \in 1..Len(symbols) :
                    /\ first.h.symbols[sym] = symbols[sym]
                    /\ second.h.symbols[sym] = symbols[sym]
    /\ last.op = "unlisp_rt_intern_sym" =>
         /\ last.out.val = symtab[CStr_from_ptr(last.args[1])]
         /\ symbols[last.out.val].name = CStr_from_ptr(last.args[1])

\* "foo" was interned, bound with set-fn, and interned again through the
\* other literal of the same name: the same record, still bound.
C7_Witness ==
    /\ last.op = "unlisp_rt_intern_sym"
    /\ last.args[1] = 2
    /\ last.out.val = Len(Predefined) + 1
    /\ Len(symbols) >= Len(Predefined) + 1
    /\ symbols[last.out.val].name = "foo"
    /\ symbols[last.out.val].function # NULL

\* What set-fn does to the heap, for every symbol and function Object.
C8_SetFn ==
    \A sym \in SymbolObjects, func \in FunctionObjects :
        LET set == native_set_fn_invoke(Heap, sym, func)
        IN  /\ set.out.tag = "obj"
            /\ unlisp_rt_object_is_nil(set.h, set.out.val).out = Ret(TRUE)
            /\ native_symbol_fn_invoke(set.h, sym).out = RetObj(func)
            /\ \A other \in 1..Len(symbols) :
                  other # sym.obj =>
                      native_symbol_fn_invoke(set.h, from_symbol(other)).out
                          = native_symbol_fn_invoke(Heap, from_symbol(other)).out

\* What symbol-function returns, and what the set-fn just made has done.
C8_Lookup ==
    /\ (last.op = "native_symbol_fn_invoke" /\ last.out.tag = "obj") =>
         last.out.val = from_function(symbols[last.args[1].obj].function)
    /\ (last.op = "native_set_fn_invoke" /\ last.out.tag = "obj") =>
         /\ symbols[last.args[1].obj].function = last.args[2].obj
         /\ unlisp_rt_object_is_nil(Heap, last.out.val).out = Ret(TRUE)

\* A step that is not a set-fn leaves every binding as it was.
C8_Keep ==
    (pc # "init" /\ last'.op # "native_set_fn_invoke") =>
        \A sym \in 1..Len(symbols) :
            /\ sym <= Len(symbols')
            /\ symbols'[sym].function = symbols[sym].function

(* C8: set-fn(sym, func) returns nil, and from then on                     *)
(* symbol-function(sym) returns func, until the next set-fn on sym; the    *)
(* binding of every other symbol stays as it was.                          *)
C8_Binding == [](C8_SetFn /\ C8_Lookup) /\ [][C8_Keep]_vars

\* "foo" was bound to a closure with set-fn, other helpers ran, and
\* symbol-function gave the closure back.
C8_Witness ==
    /\ last.op = "native_symbol_fn_invoke"
    /\ last.args[1].ty = ObjType_Symbol
    /\ symbols[last.args[1].obj].name = "foo"
    /\ last.out = RetObj(from_function(Len(Predefined) + 1))

(* C9: the descriptor pointer of an Object of kind Function is never       *)
(* null, the Object that symbol-function returns for a symbol without a    *)
(* binding included.                                                       *)
C9_NonNull ==
    \A o \in FunctionObjects : o.obj # NULL

(* C10: every descriptor has an invoke pointer, and every descriptor       *)
(* that reaches the apply path and passes its arity check has an apply     *)
(* pointer that was stored and is one of the apply helpers.                *)
C10_Pointers ==
    /\ \A f \in 1..Len(functions) :
         /\ Field(functions[f], F_invoke_f_ptr).k = "fptr"
         /\ Field(functions[f], F_invoke_f_ptr).v # ""
    /\ (/\ last.op = "native_apply_invoke"
        /\ Len(last.args) >= 2
        /\ last.args[1].ty = ObjType_Function
        /\ last.args[1].obj # NULL
        /\ last.args[Len(last.args)].ty = ObjType_List
        /\ last.out.tag # "raise") =>
         /\ Field(functions[last.args[1].obj], F_apply_to_f_ptr).k = "fptr"
         /\ Field(functions[last.args[1].obj], F_apply_to_f_ptr).v \in ApplyHelpers

\* The values a closure of the given shape can capture.
Captures(closure) == [1..closure.free_vars -> Objects]

\* The closure descriptors on the heap.
ClosureStructs ==
    {f \in 1..Len(functions) : Field(functions[f], F_ty) = I(FunctionType_Closure)}

(* C11: materialisation stores captured variable i into field 8 + i, the   *)
(* field the trampoline loads it from, and no store of a captured          *)
(* variable goes to one of the prefix fields 0..7.                         *)
C11_FreeVarSlots ==
    /\ \A closure \in CapturingClosures :
         \A vals \in Captures(closure) :
            LET d == closure_struct(Heap, closure, vals)
            IN  /\ \A i \in 0..(closure.free_vars - 1) :
                      /\ Field(d, 8 + i).k = "obj"
                      /\ Field(d, 8 + i).v = vals[i + 1]
                /\ \A j \in 0..7 : Field(d, j).k # "obj"
    /\ \A f \in ClosureStructs :
         /\ \A i \in 0..(Len(functions[f]) - PrefixFields - 1) :
               Field(functions[f], 8 + i).k = "obj"
         /\ \A j \in 0..7 : Field(functions[f], j).k # "obj"

\* The arguments the compiled code passes to a closure of the given shape.
InvokeArgs(closure) == [1..closure.arglist -> Objects]

(* C12: invoking a materialised closure through its trampoline calls the   *)
(* raw function with the values captured at creation, in order, followed   *)
(* by the arguments of the call, in order, and returns what the raw        *)
(* function returns.                                                       *)
C12_Trampoline ==
    /\ \A closure \in CapturingClosures :
         \A vals \in Captures(closure), args \in InvokeArgs(closure) :
            LET d == closure_struct(Heap, closure, vals)
                passed == raw_fn_args(d, closure.free_vars, args)
                expected == vals \o args
            IN  /\ Len(passed) = Len(expected)
                /\ \A i \in 1..Len(expected) :
                      /\ passed[i].k = "obj"
                      /\ passed[i].v = expected[i]
                /\ invoke_closure(Heap, d, args) = Res(Heap, RetObj(expected[1]))
    /\ last.op = "invoke_closure" => last.out.tag = "obj"

\* The name codegen_invoke_fn gives the trampoline of a closure.
TrampolineName(closure) ==
    IF closure.name = "" THEN "invoke_closure" ELSE "invoke_" \o closure.name

(* C13: once a closure is materialised, whatever the number of captured    *)
(* variables, has_restarg says whether the lambda has a rest parameter,    *)
(* the kind is 1 (closure), is_macro is false and invoke_fptr is the       *)
(* closure's trampoline: no later store of the sequence overwrites them.   *)
C13_PrefixFields ==
    /\ \A closure \in CapturingClosures :
         \A vals \in Captures(closure) :
            LET d == closure_struct(Heap, closure, vals)
            IN  /\ Field(d, F_ty) = I(1)
                /\ Field(d, F_is_macro) = B(FALSE)
                /\ Field(d, F_invoke_f_ptr) = FPtr(TrampolineName(closure))
                /\ Field(d, F_has_restarg).k = "bool"
                /\ Field(d, F_has_restarg).v = closure.restarg
    /\ \A f \in ClosureStructs :
         /\ Field(functions[f], F_is_macro) = B(FALSE)
         /\ Field(functions[f], F_invoke_f_ptr).k = "fptr"
         /\ Field(functions[f], F_has_restarg).k = "bool"

(* C14: in every descriptor, of a built-in or of a closure, arg_count is   *)
(* the number of positional parameters without the rest parameter, so      *)
(* that the arity check of a closure with n positional parameters and a    *)
(* rest parameter accepts exactly the argument counts >= n.                *)
C14_ArgCount ==
    /\ \A f \in 1..Len(functions) :
         f <= Len(Predefined) =>
            Field(functions[f], F_arg_count) = I(Len(Predefined[f].arglist))
    /\ \A closure \in CapturingClosures :
         \A vals \in Captures(closure) :
            LET d == closure_struct(Heap, closure, vals)
            IN  /\ Field(d, F_arg_count) = I(closure.arglist)
                /\ closure.restarg =>
                     \A n \in ArityCases :
                        \A has_restarg \in Loads(Field(d, F_has_restarg)) :
                           unlisp_rt_check_arity(has_restarg, Field(d, F_arg_count).v, n)
                              = (n >= closure.arglist)

\* The message of the arity error for a descriptor and an argument count.
ArityMessage(d, n) ==
    "wrong number of arguments (" \o ToString(n) \o ") passed to "
        \o Field(d, F_name).v

\* The Function Objects that point at a descriptor.
Callables == {o \in FunctionObjects : o.obj # NULL}

(* C15: on the apply path the apply helper of the target is called only    *)
(* when the arity check of the target accepts the length of the argument   *)
(* list; when it does not, the arity error with the target's name and the  *)
(* length of the list is raised and the helper is not entered: nothing on  *)
(* the heap changes and nothing is returned.                               *)
C15_ApplyArity ==
    /\ \A o \in Callables, l \in 1..Len(lists) :
         \A orc \in FnLoads(o) :
            LET d == functions[o.obj]
                accepted == unlisp_rt_check_arity(
                                LoadBool(Field(d, F_has_restarg), orc),
                                Field(d, F_arg_count).v, lists[l].len)
                applied == apply_to_list(Heap, o.obj, lists[l], orc)
            IN  /\ ~ accepted =>
                     applied = Res(Heap, Raised(ArityMessage(d, lists[l].len)))
                /\ (accepted /\ Field(d, F_apply_to_f_ptr).k = "fptr") =>
                     applied = call_apply_fn(Heap, Field(d, F_apply_to_f_ptr).v,
                                             o.obj, lists[l], orc)
    /\ (/\ last.op = "native_apply_invoke"
        /\ Len(last.args) >= 2
        /\ last.args[1].ty = ObjType_Function
        /\ last.args[1].obj # NULL
        /\ last.args[Len(last.args)].ty = ObjType_List) =>
         LET d == functions[last.args[1].obj]
             len == (Len(last.args) - 2) + lists[last.args[Len(last.args)].obj].len
         IN  (\A has_restarg \in Loads(Field(d, F_has_restarg)) :
                 ~ unlisp_rt_check_arity(has_restarg, Field(d, F_arg_count).v, len))
             => /\ last.out = Raised(ArityMessage(d, len))
                /\ pc \in {"longjmp", "idle"}
                /\ pc = "longjmp" => ERR_MSG_PTR.str = ArityMessage(d, len)

\* apply was given `first` and the empty list: the handler got the arity
\* error for 0 arguments.
C15_Witness ==
    /\ pc = "idle"
    /\ last.op = "native_apply_invoke"
    /\ Len(last.args) = 2
    /\ last.args[1].ty = ObjType_Function
    /\ last.args[1].obj # NULL
    /\ result = [tag |-> "Err", val |-> "wrong number of arguments (0) passed to first"]

(* C16: `eval -f FILE` exits with status 1 when reading, expanding or      *)
(* evaluating some form of FILE gave an error, and with status 0 only      *)
(* when every form evaluated without error.                                *)
C16_EvalExit ==
    (driver.cmd = "eval" /\ driver.exit # NotExited) =>
        driver.exit = (IF \E i \in 1..Len(driver.input) : driver.input[i] # "value"
                       THEN 1 ELSE 0)

(* C17: in the REPL every form that gave a value, a syntax error, a        *)
(* code-generation error or a runtime failure is followed by one           *)
(* ctx.reinitialize() and one more prompt, whatever the form ended in;     *)
(* the loop is left only when the input is exhausted, never by an error.   *)
C17_ReplLoop ==
    /\ [](driver.cmd = "repl" =>
            /\ driver.reinits = driver.pos - 1
            /\ driver.prompts = driver.pos
            /\ (driver.exit # NotExited => driver.pos = Len(driver.input) + 1))
    /\ [][(driver.cmd = "repl" /\ driver'.pos # driver.pos) =>
            /\ driver'.reinits = driver.reinits + 1
            /\ driver'.prompts = driver.prompts + 1
            /\ driver'.exit = NotExited]_vars

C17_Witness ==
    /\ driver.cmd = "repl"
    /\ Len(driver.input) >= 2
    /\ driver.input[1] # "value"
    /\ driver.pos > 2
    /\ driver.prompts = driver.pos

\* The List Objects the running code holds.
ListObjects == {o \in Live : o.ty = ObjType_List}

(* C18: first of a non-empty list returns the head element, and first of   *)
(* an empty list ends in an error raised to the caller: no Object comes    *)
(* back and the process is not aborted.                                    *)
C18_First ==
    \A l \in ListObjects :
        LET out == native_first_invoke(Heap, l).out
        IN  IF lists[l.obj].len = 0
            THEN out.tag = "raise"
            ELSE out = RetObj(nodes[lists[l.obj].node].val)

\* The sum of the payloads of a sequence of Objects.
RECURSIVE PayloadSum(_)
PayloadSum(objs) == IF objs = << >> THEN 0 ELSE Head(objs).obj + PayloadSum(Tail(objs))

AllInts(objs) == \A i \in 1..Len(objs) : objs[i].ty = ObjType_Int64

\* The argument list the apply path receives for the arguments objs: the
\* leading ones consed onto the list the last argument of apply names.
ApplyArgs(objs, tail) == obj_array_to_list(Heap, Len(objs), objs, tail.obj)

RECURSIVE NodeCount(_, _)
NodeCount(h, l) ==
    IF h.lists[l].node = NULL THEN 0
    ELSE 1 + NodeCount(h, h.nodes[h.lists[l].node].next)

(* C20: for every Object x and every list l the code has built,            *)
(* cons(x, l) is a list of len(l) + 1 cells and leaves every cell of the   *)
(* heap, those of l included, as it was; first of it is x and rest of it   *)
(* is l itself; rest of an empty list is an empty list; and the len field  *)
(* of every List cell is the number of nodes reached by its next links.    *)
C20_ConsFirstRest ==
    /\ \A l \in 1..Len(lists) : lists[l].len = NodeCount(Heap, l)
    /\ \A x \in Live, l \in ListObjects :
          LET consed == native_cons_invoke(Heap, x, l)
              c == consed.out.val
          IN  /\ consed.out.tag = "obj"
              /\ c.ty = ObjType_List
              /\ consed.h.lists[c.obj].len = lists[l.obj].len + 1
              /\ NodeCount(consed.h, c.obj) = lists[l.obj].len + 1
              /\ SubSeq(consed.h.lists, 1, Len(lists)) = lists
              /\ SubSeq(consed.h.nodes, 1, Len(nodes)) = nodes
              /\ native_first_invoke(consed.h, c).out = RetObj(x)
              /\ native_rest_invoke(consed.h, c) = Res(consed.h, RetObj(l))
    /\ \A l \in ListObjects :
          lists[l.obj].len = 0 =>
              LET rest == native_rest_invoke(Heap, l)
              IN  /\ rest.out.tag = "obj"
                  /\ rest.out.val.ty = ObjType_List
                  /\ rest.h.lists[rest.out.val.obj] = EmptyList
    /\ (last.op = "native_cons_invoke" /\ last.out.tag = "obj") =>
          /\ lists[last.out.val.obj].len = lists[last.args[2].obj].len + 1
          /\ nodes[lists[last.out.val.obj].node] =
                [val |-> last.args[1], next |-> last.args[2].obj]

C20_Witness ==
    /\ last.op = "native_rest_invoke"
    /\ last.out.tag = "obj"
    /\ lists[last.args[1].obj].len = 1
    /\ lists[last.out.val.obj].len = 0
    /\ nodes[lists[last.args[1].obj].node].val = from_int(7)

(* C21: a call of compile_closure that returns, with the closure or with   *)
(* an error, leaves the environment frames of the context, and so the      *)
(* names visible in them, and the depth of the block stack as they were    *)
(* before the call.                                                        *)
C21_EnvBalance ==
    [][(ctx' # ctx /\ ctx'.out \in {"ok", "err"}) =>
            /\ ctx'.envs = ctx.envs
            /\ ctx'.blocks = ctx.blocks]_vars

(* C22: a call of apply with a function and n >= 0 trailing arguments      *)
(* reads the list at an index of the trailing arguments, one in 0..n-1,    *)
(* and with no trailing argument it reads nothing outside them: the call   *)
(* does not end in undefined behaviour.                                    *)
C22_ApplyReads ==
    (/\ last.op = "native_apply_invoke"
     /\ last.args[1].ty = ObjType_Function) =>
        LET n == Len(last.args) - 1
        IN  /\ last_arg_index(n) \in 0..(n - 1)
            /\ n = 0 => last.out.tag # "ub"

\* The index of the token that closes the list open at depth d before
\* index i, or 0 when the input ends first.
RECURSIVE Close(_, _, _)
Close(toks, i, d) ==
    IF i > Len(toks) THEN 0
    ELSE IF toks[i].k = "LeftPar" THEN Close(toks, i + 1, d + 1)
    ELSE IF toks[i].k = "RightPar" THEN (IF d = 1 THEN i ELSE Close(toks, i + 1, d - 1))
    ELSE Close(toks, i + 1, d)

\* A token sequence with every nil written as an empty pair of parentheses.
RECURSIVE Spelt(_)
Spelt(toks) ==
    IF toks = << >> THEN << >>
    ELSE (IF Head(toks) = Tok("Symbol", "nil")
          THEN <<Tok("LeftPar", ""), Tok("RightPar", "")>>
          ELSE <<Head(toks)>>) \o Spelt(Tail(toks))

\* The tokens a form is written with, its elements in order.
RECURSIVE Unread(_)
Unread(form) ==
    LET RECURSIVE Each(_)
        Each(forms) == IF forms = << >> THEN << >>
                       ELSE Unread(Head(forms)) \o Each(Tail(forms))
    IN  CASE form.k = "List" -> <<Tok("LeftPar", "")>> \o Each(form.items) \o <<Tok("RightPar", "")>>
          [] form.k = "T" -> <<Tok("Symbol", "t")>>
          [] form.k = "Symbol" -> <<Tok("Symbol", form.v)>>
          [] form.k = "Integer" -> <<Tok("IntegerLiteral", form.v)>>
          [] form.k = "String" -> <<Tok("StringLiteral", form.v)>>

(* C23: read_form on any token stream gives exactly one of Ok(None), an    *)
(* error and Ok(Some(form)): Ok(None) exactly on the empty stream; the     *)
(* error "unbalanced parens" on a leading `)`; the end-of-file error when  *)
(* the stream ends inside an open list; otherwise the form whose tokens,   *)
(* in order and with one List per pair of parentheses, are the tokens      *)
(* consumed, nil being the empty List.                                     *)
C23_ReadForm ==
    LET toks == reader.toks
        read == read_form(toks)
        used == Len(toks) - Len(read.rest)
        open == toks # << >> /\ Head(toks).k = "LeftPar"
    IN  /\ read.out.tag \in {"none", "err", "form"}
        /\ (read.out.tag = "none") = (toks = << >>)
        /\ (toks # << >> /\ Head(toks).k = "RightPar") =>
              read.out = [tag |-> "err", msg |-> "unbalanced parens"]
        /\ (open /\ Close(toks, 2, 1) = 0) =>
              read.out = [tag |-> "err", msg |-> "unexpected end of file"]
        /\ read.out.tag = "err" =>
              \/ Head(toks).k = "RightPar"
              \/ open /\ Close(toks, 2, 1) = 0
        /\ read.out.tag = "form" =>
              /\ used = (IF open THEN Close(toks, 2, 1) ELSE 1)
              /\ read.rest = SubSeq(toks, used + 1, Len(toks))
              /\ open => read.out.form.k = "List"
              /\ Head(toks) = Tok("Symbol", "nil") => read.out.form = ListForm(<< >>)
              /\ Unread(read.out.form) = Spelt(SubSeq(toks, 1, used))

C23_Witness ==
    /\ reader.out.tag = "form"
    /\ reader.out.form.k = "List"
    /\ Len(reader.out.form.items) = 2
    /\ reader.out.form.items[1] = ListForm(<< >>)
    /\ reader.out.form.items[2] = Form("Symbol", "a")

====
